---- MODULE Spec2Model ----
(***************************************************************************)
(* A model of the builders of src/ast.hpp (namespace Sass): the Parameters *)
(* and Arguments lists, Block concatenation, the Dimension constructor and *)
(* the selector family (Sequence, Combination, Group).                     *)
(*                                                                         *)
(* The builders of different families share no state, so each family has   *)
(* its own specification over the same variables:                          *)
(*   SpecLists      Parameters::operator<< and Arguments::operator<<       *)
(*   SpecBlock      Block::operator<< and Block::operator+=                *)
(*   SpecDimension  Dimension::Dimension                                   *)
(*   SpecSelector   Sequence, Combination and Group builders               *)
(*   SpecGroup      Group builders over Combinations with every flag value *)
(*   SpecSequence   Sequence builders, a call in progress keeps running    *)
(* Pointers are modelled as object ids, the null pointer as NULL.          *)
(***************************************************************************)
EXTENDS Integers, Sequences, FiniteSets, TLC

VARIABLES
  plist,                    \* Parameters::list
  has_optional_parameters,  \* Parameters::has_optional_parameters
  has_rest_parameter,       \* Parameters::has_rest_parameter
  alist,                    \* Arguments::list
  has_named_arguments,      \* Arguments::has_named_arguments
  has_rest_argument,        \* Arguments::has_rest_argument
  blocks,                   \* the Block objects, by id
  nstmts,                   \* number of Statement nodes created so far
  dims,                     \* the Dimension objects constructed, with their arguments
  seqs,                     \* the Sequence objects, by id
  combs,                    \* the Combination objects, in order of construction
  groups,                   \* the Group objects, by id
  call,                     \* the builder call in progress, if any
  last                      \* the last builder operation executed (history)

listVars  == <<plist, has_optional_parameters, has_rest_parameter,
               alist, has_named_arguments, has_rest_argument>>
blockVars == <<blocks, nstmts>>
selVars   == <<seqs, combs, groups, call>>
vars      == <<plist, has_optional_parameters, has_rest_parameter,
               alist, has_named_arguments, has_rest_argument,
               blocks, nstmts, dims, seqs, combs, groups, call, last>>

NULL == 0

\* AST_Node(p, l): every node carries the source path and line.
Paths == {"a.scss"}
Lines == {1}

\* The record of the last operation: its name and, for Block::operator+=, the
\* target and the statements the target and the source held when it was
\* called.
NoOp == [op |-> "none", dst |-> NULL, old_dst |-> <<>>, old_src |-> <<>>]
Op(name) == [NoOp EXCEPT !.op = name]

(***************************************************************************)
(* Parameter / Parameters                                                  *)
(***************************************************************************)
MaxParams == 3
MaxArgs == 3

\* A Value* is NULL or the id of a Value node.
ValuePtrs == {NULL, 1}
ParameterNames == {"a"}
ArgumentNames == {"", "key"}

\* Parameter::Parameter: stores its arguments; the body is a TO-DO comment.
Parameter(p, l, n, def, rest) ==
  [path |-> p, line |-> l, name |-> n,
   default_value |-> def, is_rest_parameter |-> rest]

AllParameters ==
  { Parameter(p, l, n, def, rest) :
      p \in Paths, l \in Lines, n \in ParameterNames,
      def \in ValuePtrs, rest \in BOOLEAN }

\* Parameters::operator<< with the flag assigned from the appended element
\* instead of set.
ParametersFlagsAssigned(p, opt, rest) ==
  IF p.default_value # NULL
    THEN [has_optional_parameters |-> TRUE, has_rest_parameter |-> rest]
    ELSE IF p.is_rest_parameter
      THEN [has_optional_parameters |-> opt, has_rest_parameter |-> TRUE]
      ELSE [has_optional_parameters |-> FALSE, has_rest_parameter |-> rest]

\* Parameters::operator<<, the flag updates. Every `if (...) ; // error`
\* in the three branches is an empty statement: nothing is reported and
\* control falls through to the push_back.
ParametersFlags(p, opt, rest) ==
  IF p.default_value # NULL
    THEN [has_optional_parameters |-> TRUE, has_rest_parameter |-> rest]
    ELSE IF p.is_rest_parameter
      THEN [has_optional_parameters |-> opt, has_rest_parameter |-> TRUE]
      ELSE [has_optional_parameters |-> opt, has_rest_parameter |-> rest]

\* Parameters::operator<<(Parameter* p)
ParametersAppend(p) ==
  /\ Len(plist) < MaxParams
  /\ LET f == ParametersFlags(p, has_optional_parameters, has_rest_parameter)
     IN  /\ has_optional_parameters' = f.has_optional_parameters
         /\ has_rest_parameter' = f.has_rest_parameter
  /\ plist' = Append(plist, p)
  /\ last' = Op("Parameters<<")
  /\ UNCHANGED <<alist, has_named_arguments, has_rest_argument>>
  /\ UNCHANGED <<blockVars, dims, selVars>>

(***************************************************************************)
(* Argument / Arguments                                                    *)
(***************************************************************************)
\* Argument::Argument: stores its arguments; the body tests
\* name != "" && is_rest_argument and does nothing in that case.
Argument(p, l, val, n, rest) ==
  [path |-> p, line |-> l, value |-> val, name |-> n, is_rest_argument |-> rest]

AllArguments ==
  { Argument(p, l, 1, n, rest) :
      p \in Paths, l \in Lines, n \in ArgumentNames, rest \in BOOLEAN }

\* Arguments::operator<<, the flag updates. As in Parameters, every error
\* position is an empty statement.
ArgumentsFlags(a, named, rest) ==
  IF a.name # ""
    THEN [has_named_arguments |-> TRUE, has_rest_argument |-> rest]
    ELSE IF a.is_rest_argument
      THEN [has_named_arguments |-> named, has_rest_argument |-> TRUE]
      ELSE [has_named_arguments |-> named, has_rest_argument |-> rest]

\* Arguments::operator<<(Argument* a)
ArgumentsAppend(a) ==
  /\ Len(alist) < MaxArgs
  /\ LET f == ArgumentsFlags(a, has_named_arguments, has_rest_argument)
     IN  /\ has_named_arguments' = f.has_named_arguments
         /\ has_rest_argument' = f.has_rest_argument
  /\ alist' = Append(alist, a)
  /\ last' = Op("Arguments<<")
  /\ UNCHANGED <<plist, has_optional_parameters, has_rest_parameter>>
  /\ UNCHANGED <<blockVars, dims, selVars>>

(***************************************************************************)
(* Block                                                                   *)
(***************************************************************************)
NumBlocks == 2
MaxStmts == 2
MaxBlockLen == 3

BlockIds == 1..NumBlocks

\* Block::Block: an empty statement vector (reserve does not change it).
\* The fields of the bases (path, line, is_unnestable) are never written
\* again and are left out.
Block(p, l, root) == [statements |-> <<>>, is_root |-> root]

\* Block::length
BlockLength(bl, b) == Len(bl[b].statements)

\* statements.push_back(s) on block b
BlockPush(bl, b, s) ==
  [bl EXCEPT ![b].statements = Append(bl[b].statements, s)]

\* The loop of Block::operator+=: L is read once before the loop, each
\* iteration reads (*b)[i] from the source as it is then and pushes it.
RECURSIVE BlockConcatLoop(_, _, _, _, _)
BlockConcatLoop(bl, dst, src, i, L) ==
  IF i < L
    THEN BlockConcatLoop(BlockPush(bl, dst, bl[src].statements[i + 1]),
                         dst, src, i + 1, L)
    ELSE bl

BlockConcatFromOne(bl, dst, src) ==
  BlockConcatLoop(bl, dst, src, 1, BlockLength(bl, src))

\* Block::operator+= as a function of the heap of blocks.
BlockConcatResult(bl, dst, src) ==
  BlockConcatLoop(bl, dst, src, 0, BlockLength(bl, src))

\* Block::operator<<(Statement* s), s a Statement node the caller has
\* just created.
BlockAppend(b) ==
  /\ nstmts < MaxStmts
  /\ BlockLength(blocks, b) < MaxBlockLen
  /\ nstmts' = nstmts + 1
  /\ blocks' = BlockPush(blocks, b, nstmts + 1)
  /\ last' = Op("Block<<")
  /\ UNCHANGED <<listVars, dims, selVars>>

\* Block::operator+=(Block* b)
BlockConcat(dst, src) ==
  /\ BlockLength(blocks, dst) + BlockLength(blocks, src) <= MaxBlockLen
  /\ blocks' = BlockConcatResult(blocks, dst, src)
  /\ last' = [op |-> "Block+=", dst |-> dst,
              old_dst |-> blocks[dst].statements,
              old_src |-> blocks[src].statements]
  /\ UNCHANGED <<nstmts, listVars, dims, selVars>>

(***************************************************************************)
(* Value / Dimension                                                       *)
(***************************************************************************)
MaxDims == 3

Units == {"px", "em", ""}
Magnitudes == {0, 5}

\* Value::Value
Value(p, l) == [path |-> p, line |-> l, delayed |-> FALSE, parenthesized |-> FALSE]

DimensionIntoDenominator(p, l, val, unit) ==
  LET base == Value(p, l)
  IN  [path |-> base.path, line |-> base.line,
       delayed |-> base.delayed, parenthesized |-> base.parenthesized,
       value |-> val,
       numerator_units |-> <<>>,
       denominator_units |-> Append(<<>>, unit)]

\* Dimension::Dimension: both unit vectors start empty, then
\* numerator_units.push_back(unit).
Dimension(p, l, val, unit) ==
  LET base == Value(p, l)
  IN  [path |-> base.path, line |-> base.line,
       delayed |-> base.delayed, parenthesized |-> base.parenthesized,
       value |-> val,
       numerator_units |-> Append(<<>>, unit),
       denominator_units |-> <<>>]

\* new Dimension(p, l, val, unit); the arguments are kept beside the node.
DimensionNew(p, l, val, unit) ==
  /\ Len(dims) < MaxDims
  /\ dims' = Append(dims, [val |-> val, unit |-> unit,
                           node |-> Dimension(p, l, val, unit)])
  /\ last' = Op("Dimension")
  /\ UNCHANGED <<listVars, blockVars, selVars>>

(***************************************************************************)
(* Selectors: Simple, Reference, Placeholder, Sequence                     *)
(***************************************************************************)
NumSeqs == 2
MaxSeqLen == 2
StackLimit == 2

SeqIds == 1..NumSeqs

\* Simple::Simple: a Simple* is modelled by the text of the node it points
\* to. Reference and Placeholder derive from Simple_Base, not from Simple:
\* a Reference* or Placeholder* is no Simple*.
SimpleTexts == {"a", "b"}

\* Sequence::Sequence
Sequence(p, l, s) == [selectors |-> <<>>, has_reference |-> FALSE,
                      has_placeholder |-> FALSE]

\* Sequence::length
SequenceLength(sq, s) == Len(sq[s].selectors)

\* Sequence::operator<<(Simple* s): push_back only, the flags are not touched.
SequencePush(sq, s, x) ==
  [sq EXCEPT ![s].selectors = Append(sq[s].selectors, x)]

\* The loop of Sequence::operator+=: (*seq)[i] has static type Simple*&, so
\* every element goes through operator<<(Simple*).
RECURSIVE SequenceConcatLoop(_, _, _, _, _)
SequenceConcatLoop(sq, dst, src, i, L) ==
  IF i < L
    THEN SequenceConcatLoop(SequencePush(sq, dst, sq[src].selectors[i + 1]),
                            dst, src, i + 1, L)
    ELSE sq

\* No builder call is executing: the caller's next statement can run.
Idle == call.status = "idle"

IdleCall == [status |-> "idle", fn |-> "none", seq |-> NULL, depth |-> 0]

\* Sequence::operator<<(Simple* s)
SequenceAppendSimple(s, x) ==
  /\ Idle
  /\ SequenceLength(seqs, s) < MaxSeqLen
  /\ seqs' = SequencePush(seqs, s, x)
  /\ last' = Op("Sequence<<Simple")
  /\ UNCHANGED <<combs, groups, call, listVars, blockVars, dims>>

\* Sequence::operator<<(Reference* s), entry: has_reference = true, then
\* `(*this) << s` with s a Reference*. The only viable overload for a
\* Reference* is this same function, so the call is to itself.
SequenceAppendReference(s) ==
  /\ Idle
  /\ seqs' = [seqs EXCEPT ![s].has_reference = TRUE]
  /\ call' = [status |-> "running", fn |-> "Reference", seq |-> s, depth |-> 1]
  /\ last' = Op("Sequence<<Reference")
  /\ UNCHANGED <<combs, groups, listVars, blockVars, dims>>

\* Sequence::operator<<(Placeholder* p), entry: has_placeholder = true, then
\* `(*this) << p` with p a Placeholder*: again a call to itself.
SequenceAppendPlaceholder(s) ==
  /\ Idle
  /\ seqs' = [seqs EXCEPT ![s].has_placeholder = TRUE]
  /\ call' = [status |-> "running", fn |-> "Placeholder", seq |-> s, depth |-> 1]
  /\ last' = Op("Sequence<<Placeholder")
  /\ UNCHANGED <<combs, groups, listVars, blockVars, dims>>

\* The self-call of operator<<(Reference*) / operator<<(Placeholder*) in a
\* new stack frame: the body runs again (the flag is stored again) and calls
\* itself again. A build that turns the tail call into a jump repeats the
\* body in the same frame instead, which changes no variable.
SequenceRecurse ==
  /\ call.status = "running"
  /\ call.depth < StackLimit
  /\ seqs' = IF call.fn = "Reference"
               THEN [seqs EXCEPT ![call.seq].has_reference = TRUE]
               ELSE [seqs EXCEPT ![call.seq].has_placeholder = TRUE]
  /\ call' = [call EXCEPT !.depth = call.depth + 1]
  /\ UNCHANGED <<combs, groups, last, listVars, blockVars, dims>>

\* The recursion has no base case: with one frame per call the stack is
\* exhausted and the process is killed.
SequenceStackOverflow ==
  /\ call.status = "running"
  /\ call.depth = StackLimit
  /\ call' = [call EXCEPT !.status = "stack_overflow"]
  /\ UNCHANGED <<seqs, combs, groups, last, listVars, blockVars, dims>>

\* Sequence::operator+=(Sequence* seq)
SequenceConcat(dst, src) ==
  /\ Idle
  /\ SequenceLength(seqs, dst) + SequenceLength(seqs, src) <= MaxSeqLen
  /\ seqs' = SequenceConcatLoop(seqs, dst, src, 0, SequenceLength(seqs, src))
  /\ last' = Op("Sequence+=")
  /\ UNCHANGED <<combs, groups, call, listVars, blockVars, dims>>

(***************************************************************************)
(* Combination                                                             *)
(***************************************************************************)
MaxCombs == 2

\* enum Combination::Combinator
Combinators == {"ANCESTOR_OF", "PARENT_OF", "PRECEDES", "ADJACENT_TO"}
\* the combinators the builders are driven with (` ` and `>`)
UsedCombinators == {"ANCESTOR_OF", "PARENT_OF"}

CombinationContextAlone(cb, sq, c, ctx, sel) ==
  [combinator |-> c, context |-> ctx, selector |-> sel,
   has_reference   |-> (ctx # NULL \/ (sel # NULL /\ sq[sel].has_reference)),
   has_placeholder |-> (ctx # NULL \/ (sel # NULL /\ sq[sel].has_placeholder))]

\* Combination::Combination: the flags are computed in the initializer list
\* from the context and the sequence as they are at that moment.
Combination(cb, sq, c, ctx, sel) ==
  [combinator |-> c, context |-> ctx, selector |-> sel,
   has_reference   |-> ((ctx # NULL /\ cb[ctx].has_reference) \/
                        (sel # NULL /\ sq[sel].has_reference)),
   has_placeholder |-> ((ctx # NULL /\ cb[ctx].has_placeholder) \/
                        (sel # NULL /\ sq[sel].has_placeholder))]

CombIds == 1..Len(combs)

\* new Combination(p, l, c, ctx, sel)
CombinationNew(c, ctx, sel) ==
  /\ Idle
  /\ Len(combs) < MaxCombs
  /\ ctx \in {NULL} \cup CombIds
  /\ sel \in {NULL} \cup SeqIds
  /\ combs' = Append(combs, Combination(combs, seqs, c, ctx, sel))
  /\ last' = Op("Combination")
  /\ UNCHANGED <<seqs, groups, call, listVars, blockVars, dims>>

(***************************************************************************)
(* Group                                                                   *)
(***************************************************************************)
NumGroups == 2
MaxGroupLen == 2

GroupIds == 1..NumGroups

\* Group::Group
Group(p, l, s) == [selectors |-> <<>>, has_reference |-> FALSE,
                   has_placeholder |-> FALSE]

\* Group::length
GroupLength(gr, g) == Len(gr[g].selectors)

GroupPushAssigns(gr, cb, g, c) ==
  [gr EXCEPT ![g] = [selectors |-> Append(gr[g].selectors, c),
                     has_reference   |-> cb[c].has_reference,
                     has_placeholder |-> cb[c].has_placeholder]]

\* Group::operator<<(Combination* c) on the heap of groups: push_back, then
\* has_reference |= c->has_reference; has_placeholder |= c->has_placeholder.
GroupPush(gr, cb, g, c) ==
  [gr EXCEPT ![g] = [selectors |-> Append(gr[g].selectors, c),
                     has_reference   |-> (gr[g].has_reference \/ cb[c].has_reference),
                     has_placeholder |-> (gr[g].has_placeholder \/ cb[c].has_placeholder)]]

\* The loop of Group::operator+=: every element goes through operator<<.
RECURSIVE GroupConcatLoop(_, _, _, _, _, _)
GroupConcatLoop(gr, cb, dst, src, i, L) ==
  IF i < L
    THEN GroupConcatLoop(GroupPush(gr, cb, dst, gr[src].selectors[i + 1]),
                         cb, dst, src, i + 1, L)
    ELSE gr

\* Group::operator<<(Combination* c)
GroupAppend(g, c) ==
  /\ Idle
  /\ c \in CombIds
  /\ GroupLength(groups, g) < MaxGroupLen
  /\ groups' = GroupPush(groups, combs, g, c)
  /\ last' = Op("Group<<")
  /\ UNCHANGED <<seqs, combs, call, listVars, blockVars, dims>>

\* Group::operator+=(Group* g)
GroupConcat(dst, src) ==
  /\ Idle
  /\ GroupLength(groups, dst) + GroupLength(groups, src) <= MaxGroupLen
  /\ groups' = GroupConcatLoop(groups, combs, dst, src, 0, GroupLength(groups, src))
  /\ last' = Op("Group+=")
  /\ UNCHANGED <<seqs, combs, call, listVars, blockVars, dims>>

(***************************************************************************)
(* Specifications                                                          *)
(***************************************************************************)
\* The state after construction: an empty Parameters and Arguments list,
\* empty Blocks, Sequences and Groups, no Combination, no Dimension.
Init ==
  /\ plist = <<>>
  /\ has_optional_parameters = FALSE
  /\ has_rest_parameter = FALSE
  /\ alist = <<>>
  /\ has_named_arguments = FALSE
  /\ has_rest_argument = FALSE
  /\ blocks = [b \in BlockIds |-> Block("a.scss", 1, FALSE)]
  /\ nstmts = 0
  /\ dims = <<>>
  /\ seqs = [s \in SeqIds |-> Sequence("a.scss", 1, 0)]
  /\ combs = <<>>
  /\ groups = [g \in GroupIds |-> Group("a.scss", 1, 0)]
  /\ call = IdleCall
  /\ last = NoOp

\* The Group builders read nothing of a Combination but its has_reference
\* and has_placeholder. Both are public data members of struct Sequence and
\* struct Combination, so a client can hold a Sequence with any value of the
\* pair. FlaggedSequences holds one Sequence for each value, and InitGroup
\* one Combination constructed over each of them.
FlaggedSequences ==
  << [selectors |-> <<>>, has_reference |-> FALSE, has_placeholder |-> FALSE],
     [selectors |-> <<>>, has_reference |-> TRUE,  has_placeholder |-> FALSE],
     [selectors |-> <<>>, has_reference |-> FALSE, has_placeholder |-> TRUE],
     [selectors |-> <<>>, has_reference |-> TRUE,  has_placeholder |-> TRUE] >>

InitGroup ==
  /\ plist = <<>>
  /\ has_optional_parameters = FALSE
  /\ has_rest_parameter = FALSE
  /\ alist = <<>>
  /\ has_named_arguments = FALSE
  /\ has_rest_argument = FALSE
  /\ blocks = [b \in BlockIds |-> Block("a.scss", 1, FALSE)]
  /\ nstmts = 0
  /\ dims = <<>>
  /\ seqs = FlaggedSequences
  /\ combs = [c \in 1..Len(FlaggedSequences) |->
                Combination(<<>>, FlaggedSequences, "ANCESTOR_OF", NULL, c)]
  /\ groups = [g \in GroupIds |-> Group("a.scss", 1, 0)]
  /\ call = IdleCall
  /\ last = NoOp

NextLists ==
  \/ \E p \in AllParameters : ParametersAppend(p)
  \/ \E a \in AllArguments : ArgumentsAppend(a)

NextBlock ==
  \/ \E b \in BlockIds : BlockAppend(b)
  \/ \E dst \in BlockIds, src \in BlockIds : BlockConcat(dst, src)

NextDimension ==
  \E p \in Paths, l \in Lines, val \in Magnitudes, unit \in Units :
    DimensionNew(p, l, val, unit)

NextGroup ==
  \/ \E g \in GroupIds, c \in CombIds : GroupAppend(g, c)
  \/ \E dst \in GroupIds, src \in GroupIds : GroupConcat(dst, src)

NextSelector ==
  \/ \E s \in SeqIds, x \in SimpleTexts : SequenceAppendSimple(s, x)
  \/ \E s \in SeqIds : SequenceAppendReference(s)
  \/ \E s \in SeqIds : SequenceAppendPlaceholder(s)
  \/ SequenceRecurse
  \/ SequenceStackOverflow
  \/ \E dst \in SeqIds, src \in SeqIds : SequenceConcat(dst, src)
  \/ \E c \in UsedCombinators, ctx \in {NULL} \cup CombIds, sel \in {NULL} \cup SeqIds :
       CombinationNew(c, ctx, sel)
  \/ NextGroup

\* The Sequence builders alone.
NextSequence ==
  \/ \E s \in SeqIds, x \in SimpleTexts : SequenceAppendSimple(s, x)
  \/ \E s \in SeqIds : SequenceAppendReference(s)
  \/ \E s \in SeqIds : SequenceAppendPlaceholder(s)
  \/ SequenceRecurse
  \/ SequenceStackOverflow
  \/ \E dst \in SeqIds, src \in SeqIds : SequenceConcat(dst, src)

\* A call that has been entered keeps executing: the thread that runs the
\* builder takes the next step of the call whenever there is one. The
\* caller is under no obligation to make a further call.
SequenceCallRuns == WF_vars(SequenceRecurse \/ SequenceStackOverflow)

SpecLists     == Init /\ [][NextLists]_vars
SpecBlock     == Init /\ [][NextBlock]_vars
SpecDimension == Init /\ [][NextDimension]_vars
SpecSelector  == Init /\ [][NextSelector]_vars
SpecGroup     == InitGroup /\ [][NextGroup]_vars
SpecSequence  == Init /\ [][NextSequence]_vars /\ SequenceCallRuns

(***************************************************************************)
(* Properties                                                              *)
(***************************************************************************)

\* C1: once a parameter with a default value has been appended, no required
\* parameter (no default, not rest) is added after it, and once a rest
\* parameter has been appended nothing is added after it: in the list no
\* required parameter follows a default-valued one and nothing follows a
\* rest parameter.
C1_ParameterOrderEnforced ==
  \A i, j \in 1..Len(plist) :
    i < j =>
      /\ ~(/\ plist[i].default_value # NULL
           /\ plist[j].default_value = NULL
           /\ ~plist[j].is_rest_parameter)
      /\ ~plist[i].is_rest_parameter

\* C2: once a named argument has been appended, no non-rest positional
\* (unnamed) argument is added after it, and once a rest argument has been
\* appended nothing is added after it.
C2_ArgumentOrderEnforced ==
  \A i, j \in 1..Len(alist) :
    i < j =>
      /\ ~(/\ alist[i].name # ""
           /\ alist[j].name = ""
           /\ ~alist[j].is_rest_argument)
      /\ ~alist[i].is_rest_argument

\* C3: no Arguments list contains an element that is both named and rest:
\* such an Argument is rejected when it is constructed or appended.
C3_NoNamedRestArgument ==
  \A i \in 1..Len(alist) :
    ~(alist[i].name # "" /\ alist[i].is_rest_argument)

\* C4: after any sequence of Group::operator<< and Group::operator+=, a
\* Group's has_reference is the OR of has_reference over the Combinations in
\* its selectors, and its has_placeholder the OR of their has_placeholder
\* (both false for the empty group).
C4_GroupFlagsAreOrOfMembers ==
  \A g \in GroupIds :
    LET sel == groups[g].selectors
    IN  /\ groups[g].has_reference =
             (\E i \in 1..Len(sel) : combs[sel[i]].has_reference)
        /\ groups[g].has_placeholder =
             (\E i \in 1..Len(sel) : combs[sel[i]].has_placeholder)

\* C4, the case: a concatenation has just run and some Group holds a
\* Combination with a reference beside one without, and no placeholder.
C4_Witness ==
  /\ last.op = "Group+="
  /\ \E g \in GroupIds :
       LET sel == groups[g].selectors
       IN  /\ Len(sel) = 2
           /\ combs[sel[1]].has_reference
           /\ ~combs[sel[2]].has_reference
           /\ groups[g].has_reference
           /\ ~groups[g].has_placeholder

\* The flags a Combination would have if they were derived, now, from the
\* context and the Sequence it points to.
DerivedFlags(cb, sq, c) ==
  [has_reference   |-> ((cb[c].context # NULL /\ cb[cb[c].context].has_reference) \/
                        (cb[c].selector # NULL /\ sq[cb[c].selector].has_reference)),
   has_placeholder |-> ((cb[c].context # NULL /\ cb[cb[c].context].has_placeholder) \/
                        (cb[c].selector # NULL /\ sq[cb[c].selector].has_placeholder))]

ReferenceText == "&"
PlaceholderText == "%"

\* C6: whenever no append is executing, a Sequence's has_reference is true
\* exactly when a Reference is among its selectors, and its has_placeholder
\* exactly when a Placeholder is.
C6_SequenceFlagsMatchMembers ==
  call.status # "running" =>
    \A s \in SeqIds :
      LET sel == seqs[s].selectors
      IN  /\ seqs[s].has_reference = (\E i \in 1..Len(sel) : sel[i] = ReferenceText)
          /\ seqs[s].has_placeholder = (\E i \in 1..Len(sel) : sel[i] = PlaceholderText)

\* Three distinct Blocks 1, 2, 3 holding the statements x, y and z.
ThreeBlocks(x, y, z) ==
  << [Block("a.scss", 1, FALSE) EXCEPT !.statements = x],
     [Block("a.scss", 1, FALSE) EXCEPT !.statements = y],
     [Block("a.scss", 1, FALSE) EXCEPT !.statements = z] >>

\* C7: right after b1 += b2, b1 holds the statements it held before in their
\* old places, followed by the statements b2 held in b2's order,
\* len(b1) + len(b2) in all; and for three blocks B1, B2, B3 holding the
\* statements of any blocks of the state, (B1 += B2) += B3 and
\* B1 += (B2 += B3) give B1 the same statements.
C7_ConcatKeepsOrder ==
  /\ last.op = "Block+=" =>
       LET new == blocks[last.dst].statements
       IN  /\ Len(new) = Len(last.old_dst) + Len(last.old_src)
           /\ \A i \in 1..Len(last.old_dst) : new[i] = last.old_dst[i]
           /\ \A i \in 1..Len(last.old_src) :
                new[Len(last.old_dst) + i] = last.old_src[i]
  /\ \A b1, b2, b3 \in BlockIds :
       LET h == ThreeBlocks(blocks[b1].statements, blocks[b2].statements,
                            blocks[b3].statements)
       IN  BlockConcatResult(BlockConcatResult(h, 1, 2), 1, 3)[1].statements =
             BlockConcatResult(BlockConcatResult(h, 2, 3), 1, 2)[1].statements

\* C7, the case: a concatenation of a non-empty block onto another non-empty
\* block has just run.
C7_Witness ==
  /\ last.op = "Block+="
  /\ Len(last.old_dst) >= 1
  /\ Len(last.old_src) >= 1
  /\ last.old_dst # last.old_src
  /\ Len(blocks[last.dst].statements) = Len(last.old_dst) + Len(last.old_src)

\* C8: every Statement is held at most once: by one position of one Block.
C8_StatementHeldOnce ==
  \A b1, b2 \in BlockIds :
    \A i \in 1..Len(blocks[b1].statements), j \in 1..Len(blocks[b2].statements) :
      blocks[b1].statements[i] = blocks[b2].statements[j] => (b1 = b2 /\ i = j)

\* The Combination c is `x y` or `x > y`: Sequence <<y>> under combinator
\* comb, with a context that is Sequence <<x>> alone.
IsPair(c, x, comb, y) ==
  /\ combs[c].combinator = comb
  /\ combs[c].selector # NULL
  /\ seqs[combs[c].selector].selectors = <<y>>
  /\ combs[c].context # NULL
  /\ combs[combs[c].context].context = NULL
  /\ combs[combs[c].context].selector # NULL
  /\ seqs[combs[combs[c].context].selector].selectors = <<x>>

\* C9: building `a > b, & .foo` completes: the append of `&` to its (empty)
\* Sequence does not end in stack exhaustion; and a Group built as
\* <<`a > b`, `& .foo`>> has length 2, has_reference and no has_placeholder.
C9_ScenarioCompletes ==
  /\ ~(/\ call.status = "stack_overflow"
       /\ call.fn = "Reference"
       /\ seqs[call.seq].selectors = <<>>)
  /\ \A g \in GroupIds :
       LET sel == groups[g].selectors
       IN  (/\ Len(sel) >= 2
            /\ IsPair(sel[1], "a", "PARENT_OF", "b")
            /\ IsPair(sel[2], ReferenceText, "ANCESTOR_OF", ".foo"))
           => /\ Len(sel) = 2
              /\ groups[g].has_reference
              /\ ~groups[g].has_placeholder

\* C10: every Dimension constructed with unit u has numerator_units = <<u>>
\* and no denominator units, and is neither delayed nor parenthesized.
C10_DimensionUnits ==
  \A i \in 1..Len(dims) :
    /\ dims[i].node.numerator_units = <<dims[i].unit>>
    /\ dims[i].node.denominator_units = <<>>
    /\ ~dims[i].node.delayed
    /\ ~dims[i].node.parenthesized

\* C10, the case: a Dimension was constructed with value 5 and unit "px".
C10_Witness ==
  \E i \in 1..Len(dims) : dims[i].val = 5 /\ dims[i].unit = "px"

\* C11: every Sequence append returns. A call of operator<<(Reference*) or
\* operator<<(Placeholder*) that has been entered on a Sequence eventually
\* returns to its caller with the Reference or Placeholder as the last
\* element of selectors and the corresponding flag set. (The Simple*
\* overload is a single push_back and has no state in which it is pending.)
C11_AppendTerminates ==
  \A s \in SeqIds :
    /\ (call.status = "running" /\ call.fn = "Reference" /\ call.seq = s)
         ~> (/\ Idle
             /\ seqs[s].has_reference
             /\ SequenceLength(seqs, s) > 0
             /\ seqs[s].selectors[SequenceLength(seqs, s)] = ReferenceText)
    /\ (call.status = "running" /\ call.fn = "Placeholder" /\ call.seq = s)
         ~> (/\ Idle
             /\ seqs[s].has_placeholder
             /\ SequenceLength(seqs, s) > 0
             /\ seqs[s].selectors[SequenceLength(seqs, s)] = PlaceholderText)

\* The validation phase of a list: 0 required-only, 1 optional-allowed,
\* 2 rest-seen.
Phase(optional, rest) == IF rest THEN 2 ELSE IF optional THEN 1 ELSE 0

\* C12: no append to the Parameters list or to the Arguments list, valid or
\* violating, moves the list's validation phase backward, and none of the
\* four running flags ever changes from true to false.
C12_PhaseMonotonic ==
  [][/\ Phase(has_optional_parameters, has_rest_parameter)
          <= Phase(has_optional_parameters', has_rest_parameter')
     /\ Phase(has_named_arguments, has_rest_argument)
          <= Phase(has_named_arguments', has_rest_argument')
     /\ has_optional_parameters => has_optional_parameters'
     /\ has_rest_parameter => has_rest_parameter'
     /\ has_named_arguments => has_named_arguments'
     /\ has_rest_argument => has_rest_argument']_vars

\* C12, the case: violating appends have been made to both lists (a
\* required parameter after an optional one, a positional argument after a
\* rest argument) and each list is still in the phase it had reached.
C12_Witness ==
  /\ Len(plist) = 2
  /\ plist[1].default_value # NULL /\ ~plist[1].is_rest_parameter
  /\ plist[2].default_value = NULL /\ ~plist[2].is_rest_parameter
  /\ Phase(has_optional_parameters, has_rest_parameter) = 1
  /\ Len(alist) = 2
  /\ alist[1].name = "" /\ alist[1].is_rest_argument
  /\ alist[2].name = "" /\ ~alist[2].is_rest_argument
  /\ Phase(has_named_arguments, has_rest_argument) = 2

\* C13: in every state has_rest_parameter is true exactly when some element
\* of the Parameters list has is_rest_parameter set, and
\* has_optional_parameters exactly when some element has a default value.
C13_ParameterFlagsMatchList ==
  /\ has_rest_parameter
       <=> (\E i \in 1..Len(plist) : plist[i].is_rest_parameter)
  /\ has_optional_parameters
       <=> (\E i \in 1..Len(plist) : plist[i].default_value # NULL)

====
